---- MODULE Spec2Model ----
(***************************************************************************)
(* Model of the addressable queue (src/src/fifo.rs) and of the LRU queue   *)
(* built on it (src/src/lru.rs).                                           *)
(*                                                                         *)
(* An Arc<Item<K, V>> is an identifier into `heap`; the VecDeque `items`   *)
(* and the HashMap `pointers` hold such identifiers, so a value taken      *)
(* through one of them is seen through the other.  Option<T> is a sequence *)
(* of length at most one: None is <<>> and Some(x) is <<x>>.  A pair (k,v) *)
(* is the tuple <<k, v>>.                                                  *)
(***************************************************************************)
EXTENDS Integers, Sequences, FiniteSets, Bags, TLC

\* ------------------------------------------------------------------ bounds
NumKeys == 3
NumValues == 2
MaxItems == 3

Keys == 1..NumKeys
Values == 1..NumValues

\* ------------------------------------------------------------------- state
VARIABLES
    items,        \* fifo::Queue.items    : VecDeque<Arc<Item>>, head first
    pointers,     \* fifo::Queue.pointers : HashMap<K, Arc<Item>>
    heap,         \* the Items the live Arcs point to: [key, val]
    panicked,     \* an unwrap() of the last call failed
    op,           \* the last call: its name and arguments
    ret,          \* what the last call returned
    removedKeys,  \* keys taken by remove_key and not inserted since
    repeated,     \* the last call was remove_key of a key of removedKeys
    pending,      \* bag of the pairs inserted and not yet returned by a call
    script,       \* the calls so far, while they are only inserts at one end
                  \* of distinct keys followed by removals at one end
    recency       \* the present keys, least recently inserted or accessed
                  \* first, while the calls are only inserts of absent keys
                  \* and gets

vars == <<items, pointers, heap, panicked, op, ret, removedKeys, repeated,
          pending, script, recency>>

None == <<>>
Some(x) == <<x>>
Unit == <<>>

NoArg == 0
Call(name, key, value) ==
    [name |-> name, key |-> key, value |-> value, pairs |-> <<>>]
CallWith(name, pairs) ==
    [name |-> name, key |-> NoArg, value |-> NoArg, pairs |-> pairs]

\* The queue object as one value, so that operations can be composed.
Queue == [items |-> items, pointers |-> pointers, heap |-> heap]

Result(q, r) == [q |-> q, ret |-> r, panic |-> FALSE]
Panic(q) == [q |-> q, ret |-> None, panic |-> TRUE]

\* ------------------------------------------------------------ Arc and Item
Item(key, value) == [key |-> key, val |-> Some(value)]

Range(f) == {f[x] : x \in DOMAIN f}

\* Arc::strong_count: the references held by items and by pointers.
StrongCount(q, arc) ==
    Cardinality({i \in DOMAIN q.items : q.items[i] = arc})
  + Cardinality({k \in DOMAIN q.pointers : q.pointers[k] = arc})

\* Dropping an Arc frees the Item when no other reference is left, neither in
\* the queue nor in `locals`, the Arcs the running call still holds.
DropArc(q, arc, locals) ==
    IF arc \in DOMAIN q.heap /\ StrongCount(q, arc) = 0 /\ arc \notin locals
    THEN [q EXCEPT !.heap = [a \in DOMAIN q.heap \ {arc} |-> q.heap[a]]]
    ELSE q

\* Arc::new: a fresh allocation, the lowest address not in use.
ArcNew(q) ==
    CHOOSE a \in 1..(Cardinality(DOMAIN q.heap) + 1) :
        /\ a \notin DOMAIN q.heap
        /\ \A b \in 1..(a - 1) : b \in DOMAIN q.heap

\* HashMap::insert: the previous Arc of the key, if any, is dropped.
MapInsert(q, key, arc, locals) ==
    LET old == IF key \in DOMAIN q.pointers THEN Some(q.pointers[key]) ELSE None
        q1 == [q EXCEPT !.pointers =
                  [k \in DOMAIN q.pointers \cup {key} |->
                      IF k = key THEN arc ELSE q.pointers[k]]]
    IN  IF old = None THEN q1 ELSE DropArc(q1, old[1], locals)

\* remove_head and remove_tail without their pointers.remove(&item.key).
MapRemove_skipped(q, key, locals) == q

\* HashMap::remove without a use of the removed value.
MapRemove(q, key, locals) ==
    IF key \in DOMAIN q.pointers
    THEN LET arc == q.pointers[key]
             q1 == [q EXCEPT !.pointers =
                       [k \in DOMAIN q.pointers \ {key} |-> q.pointers[k]]]
         IN  DropArc(q1, arc, locals)
    ELSE q

\* The program never compares or prints the address of an Arc, so a queue is
\* kept up to a renaming of addresses: the Arcs of items are numbered in
\* queue order, those held by pointers only after them.
Relabel(q) ==
    LET n == Len(q.items)
        rest == DOMAIN q.heap \ Range(q.items)
        rank(a) ==
            IF a \in rest
            THEN n + Cardinality({b \in rest : b <= a})
            ELSE CHOOSE i \in 1..n : q.items[i] = a
        arcAt(j) ==
            IF j <= n THEN q.items[j]
            ELSE CHOOSE a \in rest : rank(a) = j
    IN  [items    |-> [i \in 1..n |-> i],
         pointers |-> [k \in DOMAIN q.pointers |-> rank(q.pointers[k])],
         heap     |-> [j \in 1..Cardinality(DOMAIN q.heap) |-> q.heap[arcAt(j)]]]

\* ------------------------------------------------------------- fifo::Queue
new == [items |-> <<>>, pointers |-> <<>>, heap |-> <<>>]

len(q) == Cardinality(DOMAIN q.pointers)

\* insert with push_front in place of push_back.
insert_push_front(q, key, value) ==
    LET arc == ArcNew(q)
        q1 == [q EXCEPT !.heap =
                  [a \in DOMAIN q.heap \cup {arc} |->
                      IF a = arc THEN Item(key, value) ELSE q.heap[a]]]
        q2 == [q1 EXCEPT !.items = <<arc>> \o q1.items]
    IN  Result(MapInsert(q2, key, arc, {}), Unit)

insert(q, key, value) ==
    LET arc == ArcNew(q)
        q1 == [q EXCEPT !.heap =
                  [a \in DOMAIN q.heap \cup {arc} |->
                      IF a = arc THEN Item(key, value) ELSE q.heap[a]]]
        q2 == [q1 EXCEPT !.items = Append(q1.items, arc)]
    IN  Result(MapInsert(q2, key, arc, {}), Unit)

\* insert_head with push_back in place of push_front.
insert_head_push_back(q, key, value) ==
    LET arc == ArcNew(q)
        q1 == [q EXCEPT !.heap =
                  [a \in DOMAIN q.heap \cup {arc} |->
                      IF a = arc THEN Item(key, value) ELSE q.heap[a]]]
        q2 == [q1 EXCEPT !.items = Append(q1.items, arc)]
    IN  Result(MapInsert(q2, key, arc, {}), Unit)

insert_head(q, key, value) ==
    LET arc == ArcNew(q)
        q1 == [q EXCEPT !.heap =
                  [a \in DOMAIN q.heap \cup {arc} |->
                      IF a = arc THEN Item(key, value) ELSE q.heap[a]]]
        q2 == [q1 EXCEPT !.items = <<arc>> \o q1.items]
    IN  Result(MapInsert(q2, key, arc, {}), Unit)

\* new_with that puts each pair in with insert_head.
RECURSIVE new_with_insert_head(_)
new_with_insert_head(pairs) ==
    IF pairs = <<>> THEN new
    ELSE LET n == Len(pairs)
         IN  insert_head(new_with_insert_head(SubSeq(pairs, 1, n - 1)),
                         pairs[n][1], pairs[n][2]).q

\* new_with: insert of each pair, in the order of the Vec.
RECURSIVE new_with(_)
new_with(pairs) ==
    IF pairs = <<>> THEN new
    ELSE LET n == Len(pairs)
         IN  insert(new_with(SubSeq(pairs, 1, n - 1)),
                    pairs[n][1], pairs[n][2]).q

\* The body of the `if is_some` of remove_head and remove_tail: q is the
\* queue after the pop, item the popped Arc.
TakeItem(q, item) ==
    LET key == q.heap[item].key
        q1 == MapRemove(q, key, {item})
    IN  IF StrongCount(q1, item) > 0
        THEN Panic(q1)                 \* Arc::try_unwrap(item).ok().unwrap()
        ELSE IF q1.heap[item].val = None
        THEN Panic(q1)                 \* into_inner().unwrap().unwrap()
        ELSE Result(DropArc(q1, item, {}), Some(<<key, q1.heap[item].val[1]>>))

RECURSIVE remove_head(_)
remove_head(q) ==
    IF q.items = <<>> THEN Result(q, None)
    ELSE LET item == Head(q.items)
             q1 == [q EXCEPT !.items = Tail(q.items)]
         IN  IF q1.heap[item].val # None
             THEN TakeItem(q1, item)
             ELSE remove_head(DropArc(q1, item, {}))

RECURSIVE remove_tail(_)
remove_tail(q) ==
    IF q.items = <<>> THEN Result(q, None)
    ELSE LET n == Len(q.items)
             item == q.items[n]
             q1 == [q EXCEPT !.items = SubSeq(q.items, 1, n - 1)]
         IN  IF q1.heap[item].val # None
             THEN TakeItem(q1, item)
             ELSE remove_tail(DropArc(q1, item, {}))

\* remove_key that also takes the Item out of items with swap_remove_back,
\* which puts the last Item in its place.
remove_key_swap_remove(q, key) ==
    IF key \in DOMAIN q.pointers
    THEN LET item == q.pointers[key]
             q1 == [q EXCEPT !.pointers =
                       [k \in DOMAIN q.pointers \ {key} |-> q.pointers[k]]]
             val == q1.heap[item].val
             n == Len(q1.items)
             swapped == [i \in 1..(n - 1) |->
                           IF q1.items[i] = item THEN q1.items[n]
                           ELSE q1.items[i]]
             q2 == [q1 EXCEPT !.heap[item].val = None,
                              !.items = IF item \in Range(q1.items)
                                        THEN swapped ELSE @]
         IN  Result(DropArc(q2, item, {}), val)
    ELSE Result(q, None)

\* remove_key with HashMap::get and a clone of the value in place of
\* HashMap::remove and mem::swap.
remove_key_peek(q, key) ==
    IF key \in DOMAIN q.pointers
    THEN Result(q, q.heap[q.pointers[key]].val)
    ELSE Result(q, None)

\* remove_key that, for a key pointers does not have, looks for the key in
\* items and takes the value of the first Item that has one.
remove_key_scan(q, key) ==
    IF key \in DOMAIN q.pointers
    THEN LET item == q.pointers[key]
             q1 == [q EXCEPT !.pointers =
                       [k \in DOMAIN q.pointers \ {key} |-> q.pointers[k]]]
             val == q1.heap[item].val
             q2 == [q1 EXCEPT !.heap[item].val = None]
         IN  Result(DropArc(q2, item, {}), val)
    ELSE LET found == {i \in DOMAIN q.items :
                          /\ q.heap[q.items[i]].key = key
                          /\ q.heap[q.items[i]].val # None}
         IN  IF found = {} THEN Result(q, None)
             ELSE LET i == CHOOSE j \in found : \A m \in found : j <= m
                      item == q.items[i]
                  IN  Result([q EXCEPT !.heap[item].val = None],
                             q.heap[item].val)

\* remove_key that finds the Item with HashMap::get and leaves the key in
\* pointers.
remove_key_keep_pointer(q, key) ==
    IF key \in DOMAIN q.pointers
    THEN LET item == q.pointers[key]
         IN  Result([q EXCEPT !.heap[item].val = None], q.heap[item].val)
    ELSE Result(q, None)

\* remove_key that also takes the Item out of items with VecDeque::remove.
remove_key_unlink(q, key) ==
    IF key \in DOMAIN q.pointers
    THEN LET item == q.pointers[key]
             q1 == [q EXCEPT !.pointers =
                       [k \in DOMAIN q.pointers \ {key} |-> q.pointers[k]]]
             val == q1.heap[item].val
             q2 == [q1 EXCEPT !.heap[item].val = None,
                              !.items = SelectSeq(@, LAMBDA a : a # item)]
         IN  Result(DropArc(q2, item, {}), val)
    ELSE Result(q, None)

remove_key(q, key) ==
    IF key \in DOMAIN q.pointers
    THEN LET item == q.pointers[key]
             q1 == [q EXCEPT !.pointers =
                       [k \in DOMAIN q.pointers \ {key} |-> q.pointers[k]]]
             val == q1.heap[item].val
             q2 == [q1 EXCEPT !.heap[item].val = None]
         IN  Result(DropArc(q2, item, {}), val)
    ELSE Result(q, None)

\* into_vec: the pairs of repeated remove_head, until it returns None.
RECURSIVE into_vec(_)
into_vec(q) ==
    LET r == remove_head(q)
    IN  IF r.panic \/ r.ret = None THEN <<>>
        ELSE <<r.ret[1]>> \o into_vec(r.q)

\* serde_compat, Serialize: serialize_seq(Some(self.len())), then one element
\* (key, value) for each Item of items that has a value, then end().
serialize(q) ==
    LET live == SelectSeq(q.items, LAMBDA item : q.heap[item].val # None)
    IN  [len      |-> len(q),
         elements |-> [i \in DOMAIN live |->
                          <<q.heap[live[i]].key, q.heap[live[i]].val[1]>>]]

\* serde_compat, Deserialize: the elements as a Vec, then new_with.
deserialize(data) == new_with(data.elements)

\* Whether one of the calls of remove_head that into_vec makes panics.
RECURSIVE into_vec_panics(_)
into_vec_panics(q) ==
    LET r == remove_head(q)
    IN  IF r.panic THEN TRUE
        ELSE IF r.ret = None THEN FALSE
        ELSE into_vec_panics(r.q)

\* -------------------------------------------------------------- lru::Queue
lru_insert(q, key, value) == insert(q, key, value)

lru_insert_head(q, key, value) == insert(q, key, value)

lru_remove_head(q) == remove_head(q)

lru_remove_tail(q) == remove_tail(q)

lru_remove_key(q, key) == remove_key(q, key)

\* get that leaves the entry where it is.
lru_get_in_place(q, key, read) ==
    IF key \in DOMAIN q.pointers THEN Result(q, Some(read))
    ELSE Result(q, None)

\* get returns `&item`, a reference to the closure's local that insert has
\* moved out of: `read` is what a use of that reference finds there.
lru_get(q, key, read) ==
    LET r == remove_key(q, key)
    IN  IF r.ret = None THEN Result(r.q, None)
        ELSE Result(lru_insert(r.q, key, r.ret[1]).q, Some(read))

\* --------------------------------------------------------- history of calls
Reverse(s) == [i \in 1..Len(s) |-> s[Len(s) + 1 - i]]

KeysOf(ps) == {ps[i][1] : i \in DOMAIN ps}

ScriptInit ==
    [fill |-> "none", pairs |-> <<>>, drain |-> "none", out |-> <<>>,
     done |-> FALSE]

ScriptOff ==
    [fill |-> "other", pairs |-> <<>>, drain |-> "none", out |-> <<>>,
     done |-> FALSE]

ScriptFill(end, key, value) ==
    IF /\ script.fill \in {"none", end}
       /\ script.drain = "none"
       /\ key \notin KeysOf(script.pairs)
    THEN [script EXCEPT !.fill = end, !.pairs = Append(@, <<key, value>>)]
    ELSE ScriptOff

ScriptDrain(end, r) ==
    IF /\ script.fill # "other"
       /\ script.drain \in {"none", end}
       /\ ~script.done
    THEN [script EXCEPT !.drain = end,
                        !.out = IF r = None THEN @ ELSE Append(@, r[1]),
                        !.done = (r = None)]
    ELSE ScriptOff

\* new_with: the pairs put in, while their keys are distinct.
ScriptNewWith(pairs) ==
    IF Cardinality(KeysOf(pairs)) = Len(pairs)
    THEN [ScriptInit EXCEPT !.fill = "new_with", !.pairs = pairs]
    ELSE ScriptOff

\* into_vec: all the calls of remove_head it makes, at once.
ScriptIntoVec(vec) ==
    IF script.fill # "other" /\ script.drain = "none"
    THEN [script EXCEPT !.drain = "head", !.out = vec, !.done = TRUE]
    ELSE ScriptOff

ScriptNext(call, r) ==
    CASE call.name = "insert" -> ScriptFill("tail", call.key, call.value)
      [] call.name = "new_with" -> ScriptNewWith(call.pairs)
      [] call.name = "into_vec" -> ScriptIntoVec(r)
      [] call.name = "insert_head" -> ScriptFill("head", call.key, call.value)
      [] call.name = "remove_head" -> ScriptDrain("head", r)
      [] call.name = "remove_tail" -> ScriptDrain("tail", r)
      [] OTHER -> ScriptOff

\* The bag of the elements of a sequence.
SeqToBag(ps) ==
    [p \in Range(ps) |-> Cardinality({i \in DOMAIN ps : ps[i] = p})]

PendingNext(call, r) ==
    CASE call.name \in {"insert", "insert_head"} ->
            pending (+) SetToBag({<<call.key, call.value>>})
      [] call.name = "new_with" -> SeqToBag(call.pairs)
      [] call.name = "into_vec" -> pending (-) SeqToBag(r)
      [] call.name \in {"remove_head", "remove_tail"} /\ r # None ->
            pending (-) SetToBag({r[1]})
      [] call.name = "remove_key" /\ r # None ->
            pending (-) SetToBag({<<call.key, r[1]>>})
      [] OTHER -> pending

RemovedKeysNext(call) ==
    CASE call.name \in {"insert", "insert_head"} -> removedKeys \ {call.key}
      [] call.name = "new_with" -> {}
      [] call.name = "remove_key" -> removedKeys \cup {call.key}
      [] OTHER -> removedKeys

RecencyOff == [on |-> FALSE, keys |-> <<>>]

RecencyNext(call, r) ==
    IF ~recency.on THEN RecencyOff
    ELSE CASE call.name = "insert" ->
                 IF call.key \in DOMAIN pointers THEN RecencyOff
                 ELSE [recency EXCEPT !.keys = Append(@, call.key)]
           [] call.name = "get" ->
                 IF r = None THEN recency
                 ELSE [recency EXCEPT !.keys =
                          Append(SelectSeq(@, LAMBDA k : k # call.key),
                                 call.key)]
           [] OTHER -> RecencyOff

\* ----------------------------------------------------------------- actions
Init ==
    /\ items = new.items
    /\ pointers = new.pointers
    /\ heap = new.heap
    /\ panicked = FALSE
    /\ op = Call("new", NoArg, NoArg)
    /\ ret = Unit
    /\ removedKeys = {}
    /\ repeated = FALSE
    /\ pending = EmptyBag
    /\ script = ScriptInit
    /\ recency = [on |-> TRUE, keys |-> <<>>]

\* A call that produced r: the queue and the record of the call.
Apply(r, call) ==
    /\ LET q == Relabel(r.q)
       IN  /\ items' = q.items
           /\ pointers' = q.pointers
           /\ heap' = q.heap
    /\ panicked' = r.panic
    /\ op' = call
    /\ ret' = r.ret
    /\ removedKeys' = RemovedKeysNext(call)
    /\ repeated' = (call.name = "remove_key" /\ call.key \in removedKeys)
    /\ pending' = PendingNext(call, r.ret)
    /\ script' = ScriptNext(call, r.ret)
    /\ recency' = RecencyNext(call, r.ret)

\* A call needs a queue: none is made after a panic, nor on the queue that
\* into_vec has consumed.
Callable == ~panicked /\ op.name # "into_vec"

\* The lists of at most MaxItems pairs.
PairLists ==
    UNION {[1..n -> Keys \X Values] : n \in 0..MaxItems}

\* Queue::new_with(pairs) in place of Queue::new().
NewWith(pairs) ==
    /\ op.name = "new"
    /\ Apply(Result(new_with(pairs), Unit), CallWith("new_with", pairs))

\* into_vec takes the queue by value: the queue is dropped at its end.
IntoVec ==
    /\ Callable
    /\ Apply([q |-> new, ret |-> into_vec(Queue),
              panic |-> into_vec_panics(Queue)],
             CallWith("into_vec", <<>>))

Insert(key, value) ==
    /\ Callable
    /\ Len(items) < MaxItems
    /\ Apply(insert(Queue, key, value), Call("insert", key, value))

InsertHead(key, value) ==
    /\ Callable
    /\ Len(items) < MaxItems
    /\ Apply(insert_head(Queue, key, value), Call("insert_head", key, value))

RemoveHead ==
    /\ Callable
    /\ Apply(remove_head(Queue), Call("remove_head", NoArg, NoArg))

RemoveTail ==
    /\ Callable
    /\ Apply(remove_tail(Queue), Call("remove_tail", NoArg, NoArg))

RemoveKey(key) ==
    /\ Callable
    /\ Apply(remove_key(Queue, key), Call("remove_key", key, NoArg))

Next ==
    \/ \E key \in Keys, value \in Values : Insert(key, value)
    \/ \E key \in Keys, value \in Values : InsertHead(key, value)
    \/ RemoveHead
    \/ RemoveTail
    \/ \E key \in Keys : RemoveKey(key)
    \/ \E pairs \in PairLists : NewWith(pairs)
    \/ IntoVec

Spec == Init /\ [][Next]_vars

\* The same calls made through lru::Queue, whose `inner` is the queue.
LruGet(key, read) ==
    /\ Callable
    /\ key \in DOMAIN pointers => Len(items) < MaxItems
    /\ Apply(lru_get(Queue, key, read), Call("get", key, NoArg))

LruInsert(key, value) ==
    /\ Callable
    /\ Len(items) < MaxItems
    /\ Apply(lru_insert(Queue, key, value), Call("insert", key, value))

LruInsertHead(key, value) ==
    /\ Callable
    /\ Len(items) < MaxItems
    /\ Apply(lru_insert_head(Queue, key, value),
             Call("insert_head", key, value))

LruRemoveHead ==
    /\ Callable
    /\ Apply(lru_remove_head(Queue), Call("remove_head", NoArg, NoArg))

LruRemoveTail ==
    /\ Callable
    /\ Apply(lru_remove_tail(Queue), Call("remove_tail", NoArg, NoArg))

LruRemoveKey(key) ==
    /\ Callable
    /\ Apply(lru_remove_key(Queue, key), Call("remove_key", key, NoArg))

NextLru ==
    \/ \E key \in Keys, read \in Values : LruGet(key, read)
    \/ \E key \in Keys, value \in Values : LruInsert(key, value)
    \/ \E key \in Keys, value \in Values : LruInsertHead(key, value)
    \/ LruRemoveHead
    \/ LruRemoveTail
    \/ \E key \in Keys : LruRemoveKey(key)

SpecLru == Init /\ [][NextLru]_vars

TypeOK ==
    /\ DOMAIN pointers \subseteq Keys
    /\ Len(items) <= MaxItems
    /\ Range(items) \subseteq DOMAIN heap
    /\ Range(pointers) \subseteq DOMAIN heap
    /\ panicked \in BOOLEAN

\* ------------------------------------------------------------------ claims
\* What repeated remove_tail returns, until it returns None.
RECURSIVE RepeatRemoveTail(_)
RepeatRemoveTail(q) ==
    LET r == remove_tail(q)
    IN  IF r.panic \/ r.ret = None THEN <<>>
        ELSE <<r.ret[1]>> \o RepeatRemoveTail(r.q)

IsPrefix(s, t) == Len(s) <= Len(t) /\ s = SubSeq(t, 1, Len(s))

Without(ps, key) == SelectSeq(ps, LAMBDA p : p[1] # key)

WithKey(ps, key) == SelectSeq(ps, LAMBDA p : p[1] = key)

Live(q) == {i \in DOMAIN q.items : q.heap[q.items[i]].val # None}

\* The entries of items that hold a value have pairwise distinct keys.
DistinctKeys(q) ==
    \A i, j \in Live(q) :
        i # j => q.heap[q.items[i]].key # q.heap[q.items[j]].key

\* C1: after tail inserts of distinct keys into an empty queue and no removal,
\* the calls of remove_head return the inserted pairs in insertion order and
\* None only after the last of them; calls of remove_tail instead return them
\* in reverse insertion order and None only after the first of them.
C1_FifoOrder ==
    /\ (script.fill \in {"none", "tail"} /\ script.drain = "head") =>
          /\ IsPrefix(script.out, script.pairs)
          /\ script.done => script.out = script.pairs
    /\ (script.fill \in {"none", "tail"} /\ script.drain = "tail") =>
          /\ IsPrefix(script.out, Reverse(script.pairs))
          /\ script.done => script.out = Reverse(script.pairs)

C1_Witness ==
    /\ script.fill = "tail"
    /\ script.drain = "head"
    /\ script.done
    /\ Len(script.out) >= 3

\* C2: len() is the number of keys that have a pair inserted and not yet
\* returned by a removal.
C2_LengthInvariant ==
    len(Queue) = Cardinality({p[1] : p \in BagToSet(pending)})

\* C3: an insert or insert_head of a key that pointers has leaves the Item
\* pointers had for the key without a value, so that into_vec has one pair of
\* the key, the new one.
C3_ReinsertTombstonesOld ==
    [][(op'.name \in {"insert", "insert_head"} /\ op'.key \in DOMAIN pointers) =>
          LET old == CHOOSE i \in DOMAIN items : items[i] = pointers[op'.key]
              now == IF op'.name = "insert" THEN old ELSE old + 1
          IN  /\ heap'[items'[now]].val = None
              /\ WithKey(into_vec(Queue'), op'.key)
                    = <<(<<op'.key, op'.value>>)>>]_vars

\* C4: in a queue whose entries have distinct keys, remove_key of a key that
\* pointers has takes the pair of the key out of what repeated remove_head
\* returns, and out of what repeated remove_tail returns, and leaves the
\* other pairs in their order.
C4_RemoveKeyIndependence ==
    [][(/\ op'.name = "remove_key"
        /\ op'.key \in DOMAIN pointers
        /\ DistinctKeys(Queue)) =>
          /\ into_vec(Queue') = Without(into_vec(Queue), op'.key)
          /\ Len(into_vec(Queue')) = Len(into_vec(Queue)) - 1
          /\ RepeatRemoveTail(Queue')
                = Without(RepeatRemoveTail(Queue), op'.key)
          /\ Len(RepeatRemoveTail(Queue')) = Len(RepeatRemoveTail(Queue)) - 1]_vars

C4_Witness ==
    /\ op.name = "remove_key"
    /\ ret # None
    /\ Len(items) = 3
    /\ heap[items[2]].key = op.key
    /\ Live(Queue) = {1, 3}
    /\ DistinctKeys(Queue)
    /\ heap[items[1]].key # op.key
    /\ heap[items[3]].key # op.key

\* C5: remove_head and remove_tail return None when len() is 0.
C5_EmptyRemoveReturnsNone ==
    [][(op'.name \in {"remove_head", "remove_tail"} /\ len(Queue) = 0) =>
          ret' = None]_vars

\* C6: get of a key that pointers has returns the value of the key, leaves
\* len() as it is and puts the pair at the tail, where remove_tail returns it
\* next and repeated remove_head last; get of another key returns None and
\* changes nothing.
C6_LruAccess ==
    [][op'.name = "get" =>
          IF op'.key \in DOMAIN pointers
          THEN LET v == heap[pointers[op'.key]].val[1]
               IN  /\ ret' = Some(v)
                   /\ len(Queue') = len(Queue)
                   /\ remove_tail(Queue').ret = Some(<<op'.key, v>>)
                   /\ into_vec(Queue')[Len(into_vec(Queue'))] = <<op'.key, v>>
          ELSE /\ ret' = None
               /\ Queue' = Queue]_vars

\* C7: a call of lru::Queue does what the call of the same name of
\* fifo::Queue does; after insert_head(k, v) the next remove_head returns
\* (k, v).
C7_LruDelegation ==
    [][/\ op'.name = "insert" =>
             Queue' = Relabel(insert(Queue, op'.key, op'.value).q)
       /\ op'.name = "insert_head" =>
             /\ Queue' = Relabel(insert_head(Queue, op'.key, op'.value).q)
             /\ remove_head(Queue').ret = Some(<<op'.key, op'.value>>)
       /\ op'.name = "remove_head" =>
             /\ Queue' = Relabel(remove_head(Queue).q)
             /\ ret' = remove_head(Queue).ret
       /\ op'.name = "remove_tail" =>
             /\ Queue' = Relabel(remove_tail(Queue).q)
             /\ ret' = remove_tail(Queue).ret
       /\ op'.name = "remove_key" =>
             /\ Queue' = Relabel(remove_key(Queue, op'.key).q)
             /\ ret' = remove_key(Queue, op'.key).ret]_vars

\* C8: after head inserts of distinct keys into an empty queue and no removal,
\* the calls of remove_head return the inserted pairs in reverse insertion
\* order and None only after the first of them.
C8_HeadInsertSymmetry ==
    (script.fill = "head" /\ script.drain = "head") =>
        /\ IsPrefix(script.out, Reverse(script.pairs))
        /\ script.done => script.out = Reverse(script.pairs)

C8_Witness ==
    /\ script.fill = "head"
    /\ script.drain = "head"
    /\ script.done
    /\ Len(script.out) >= 3

\* C9: remove_key of a key that pointers has returns the value of the key,
\* and remove_key of a key that remove_key has taken, with no insert of the
\* key since, returns None.
C9_IdempotentAbsence ==
    [][op'.name = "remove_key" =>
          /\ op'.key \in DOMAIN pointers =>
                /\ ret' # None
                /\ ret' = heap[pointers[op'.key]].val
          /\ op'.key \in removedKeys => ret' = None]_vars

C9_Witness ==
    /\ op.name = "remove_key"
    /\ repeated
    /\ ret = None
    /\ len(Queue) > 0

\* C10: remove_key of a key that pointers does not have returns None and
\* leaves len(), pointers, items and the value of every Item as they are.
C10_AbsentKeyUnchanged ==
    [][(op'.name = "remove_key" /\ op'.key \notin DOMAIN pointers) =>
          /\ ret' = None
          /\ len(Queue') = len(Queue)
          /\ pointers' = pointers
          /\ items' = items
          /\ heap' = heap]_vars

C10_Witness ==
    /\ op.name = "remove_key"
    /\ ret = None
    /\ op.key \notin DOMAIN pointers
    /\ Live(Queue) # {}
    /\ len(Queue) > 0

\* C11: into_vec of the queue that new_with made of pairs with distinct keys,
\* with no call in between, returns pairs.
C11_RoundTrip ==
    [][(/\ op.name = "new_with"
        /\ Cardinality(KeysOf(op.pairs)) = Len(op.pairs)
        /\ op'.name = "into_vec") =>
          ret' = op.pairs]_vars

C11_Witness ==
    /\ op.name = "into_vec"
    /\ script.fill = "new_with"
    /\ Len(script.pairs) >= 3
    /\ ret = script.pairs
\* C12: the queue decoded from the encoding of a queue has the len() of that
\* queue and the pairs that repeated remove_head returns from it, in the same
\* order.
C12_SerdeRoundTrip ==
    LET decoded == deserialize(serialize(Queue))
    IN  /\ len(decoded) = len(Queue)
        /\ into_vec(decoded) = into_vec(Queue)

\* C13: len(), the size of pointers, is the number of entries of items that
\* have a value.
C13_MappingSizeIsLiveCount ==
    len(Queue) = Cardinality(Live(Queue))

\* C14: for every key of pointers, items has one entry with that key and a
\* value, and no more than one.
C14_OneLiveEntryPerKey ==
    \A key \in DOMAIN pointers :
        Cardinality({i \in Live(Queue) : heap[items[i]].key = key}) = 1
\* C15: remove_head and remove_tail return None only when len() is 0: with
\* len() > 0 they return a pair, every Item that pointers holds being in items
\* with its value.
C15_NoneOnlyWhenEmpty ==
    [][op'.name \in {"remove_head", "remove_tail"} =>
          /\ ret' = None => len(Queue) = 0
          /\ len(Queue) > 0 => Len(ret') = 1
          /\ \A key \in DOMAIN pointers :
                /\ pointers[key] \in Range(items)
                /\ heap[pointers[key]].val # None]_vars

C15_Witness ==
    /\ op.name \in {"remove_head", "remove_tail"}
    /\ ret = None
    /\ len(Queue) = 0
    /\ removedKeys # {}

\* C16: remove_key leaves items as it is, with the same entries in the same
\* order, each with its key and, but for the entry of the key, its value; the
\* entry of the key loses its value and the key leaves pointers.  Only
\* remove_head, remove_tail and into_vec make items shorter.
C16_LazyDeletionFrame ==
    [][/\ op'.name = "remove_key" =>
             /\ items' = items
             /\ DOMAIN heap' = DOMAIN heap
             /\ \A a \in DOMAIN heap :
                   /\ heap'[a].key = heap[a].key
                   /\ heap'[a].val =
                         IF /\ op'.key \in DOMAIN pointers
                            /\ pointers[op'.key] = a
                         THEN None ELSE heap[a].val
             /\ DOMAIN pointers' = DOMAIN pointers \ {op'.key}
             /\ \A k \in DOMAIN pointers' : pointers'[k] = pointers[k]
       /\ Len(items') < Len(items) =>
             op'.name \in {"remove_head", "remove_tail", "into_vec"}]_vars

C16_Witness ==
    /\ op.name = "remove_key"
    /\ ret # None
    /\ \E i \in DOMAIN items :
          heap[items[i]].key = op.key /\ heap[items[i]].val = None
    /\ Live(Queue) # {}

\* C17: no call panics: the Arc that remove_head or remove_tail pops with a
\* value has no other owner once its key is out of pointers, and its value
\* is there to unwrap.
C17_NoPanic == ~panicked

C17_Witness ==
    /\ op.name \in {"remove_head", "remove_tail"}
    /\ ret # None
    /\ ~panicked
    /\ \E i \in Live(Queue) : heap[items[i]].key = ret[1][1]

\* The place in items' of the entry that is at place i of items.
PlaceAfter(i) ==
    CASE op'.name = "insert_head" -> i + 1
      [] op'.name = "remove_head" -> i - (Len(items) - Len(items'))
      [] OTHER -> i

\* C18: a pair that remove_key, remove_head or remove_tail returns is one of
\* the pairs inserted and not returned before; an entry that stays in items
\* keeps its key, and its value or none; into_vec returns the pairs inserted
\* and not returned before, each as often as it is pending.
C18_ExactlyOnce ==
    [][/\ (op'.name \in {"remove_head", "remove_tail"} /\ ret' # None) =>
             BagIn(ret'[1], pending)
       /\ (op'.name = "remove_key" /\ ret' # None) =>
             BagIn(<<op'.key, ret'[1]>>, pending)
       /\ \A i \in DOMAIN items :
             PlaceAfter(i) \in DOMAIN items' =>
                /\ heap'[items'[PlaceAfter(i)]].key = heap[items[i]].key
                /\ heap'[items'[PlaceAfter(i)]].val
                      \in {heap[items[i]].val, None}
       /\ op'.name = "into_vec" => SeqToBag(ret') = pending]_vars

C18_Witness ==
    /\ op.name = "into_vec"
    /\ Len(ret) >= 1
    /\ removedKeys # {}
    /\ pending = EmptyBag

\* C19: after inserts of absent keys and gets on an empty lru::Queue,
\* repeated remove_head returns the present keys from the least recently
\* inserted or accessed to the most recently inserted or accessed.
C19_RecencyOrder ==
    recency.on =>
        [i \in DOMAIN into_vec(Queue) |-> into_vec(Queue)[i][1]] = recency.keys

C19_Witness ==
    /\ recency.on
    /\ op.name = "get"
    /\ ret # None
    /\ Len(recency.keys) >= 2
    /\ heap[items[1]].key = op.key
    /\ heap[items[1]].val = None

\* C20: serialize emits as many elements as the length it announces, len().
C20_SerializedLength ==
    Len(serialize(Queue).elements) = serialize(Queue).len
====
